---- MODULE Spec2Model ----
(***************************************************************************)
(* Model of shared/githubdownload.py: the release asset downloader.        *)
(*                                                                         *)
(* Strings are tuples of one-character strings, so that regex search,      *)
(* lower(), endswith() and slicing are computed and not assumed.  Paths    *)
(* are tuples of names, absolute from the filesystem root <<>>.            *)
(***************************************************************************)
EXTENDS Integers, Sequences, FiniteSets, TLC

(***************************************************************************)
(* Bounds of the model                                                     *)
(***************************************************************************)
MaxPatterns == 2   \* longest pattern list on the command line
MaxNames == 2      \* longest -n list
MaxChmod == 2      \* longest --chmod list

(***************************************************************************)
(* Names and strings                                                       *)
(***************************************************************************)
nF == <<"f">>
nG == <<"g">>
nD == <<"d">>
nE == <<"e">>
nX == <<"x">>
nY == <<"y">>
nZ == <<"z">>
DotDot == <<".", ".">>
MACOSX == <<"_", "_", "M", "A", "C", "O", "S", "X">>
OutName == <<"o", "u", "t">>

\* str.lower() on the characters the model uses
LowerChar(c) ==
    CASE c = "M" -> "m"
      [] c = "Z" -> "z"
      [] c = "I" -> "i"
      [] c = "P" -> "p"
      [] c = "A" -> "a"
      [] c = "C" -> "c"
      [] c = "O" -> "o"
      [] c = "S" -> "s"
      [] c = "X" -> "x"
      [] OTHER -> c

Lower(s) == [i \in 1..Len(s) |-> LowerChar(s[i])]

EndsWith(s, suf) ==
    /\ Len(suf) <= Len(s)
    /\ SubSeq(s, Len(s) - Len(suf) + 1, Len(s)) = suf

ARCHIVE_SUFFIXES ==
    { <<".", "z", "i", "p">>,
      <<".", "t", "a", "r", ".", "g", "z">>,
      <<".", "t", "g", "z">>,
      <<".", "t", "a", "r", ".", "x", "z">>,
      <<".", "t", "x", "z">>,
      <<".", "t", "a", "r", ".", "b", "z", "2">>,
      <<".", "t", "b", "z", "2">> }

ZipSuffix == <<".", "z", "i", "p">>
GzSuffix == <<".", "g", "z">>

EndsWithAny(s, sufs) == \E suf \in sufs : EndsWith(s, suf)

(***************************************************************************)
(* re.compile(pat).search(name), for patterns made of literal characters,  *)
(* "." (any character), "\\." (a literal dot), a leading "^" and a         *)
(* trailing "$".  A pattern is the tuple of these tokens.                  *)
(***************************************************************************)
AnchoredStart(pat) == Len(pat) > 0 /\ pat[1] = "^"
AnchoredEnd(pat) == Len(pat) > 0 /\ pat[Len(pat)] = "$"

PatBody(pat) ==
    LET a == IF AnchoredStart(pat) THEN 2 ELSE 1
        b == IF AnchoredEnd(pat) THEN Len(pat) - 1 ELSE Len(pat)
    IN  SubSeq(pat, a, b)

TokMatch(t, c) ==
    IF t = "." THEN TRUE
    ELSE IF t = "\\." THEN c = "."
    ELSE t = c

MatchAt(body, name, i) ==
    /\ i + Len(body) - 1 <= Len(name)
    /\ \A k \in 1..Len(body) : TokMatch(body[k], name[i + k - 1])

Search(pat, name) ==
    LET body == PatBody(pat)
    IN  \E i \in 1..(Len(name) + 1) :
            /\ AnchoredStart(pat) => i = 1
            /\ MatchAt(body, name, i)
            /\ AnchoredEnd(pat) => i + Len(body) - 1 = Len(name)

(***************************************************************************)
(* find_assets: next((a for a in assets if rx.search(a["name"])), None)    *)
(* The result is the index in the release's asset list, 0 for None.        *)
(***************************************************************************)
RECURSIVE ScanFrom(_, _, _)
ScanFrom(assets, pat, i) ==
    IF i > Len(assets) THEN 0
    ELSE IF Search(pat, assets[i].name) THEN i
    ELSE ScanFrom(assets, pat, i + 1)

\* a matcher that keeps the last matching asset instead of the first
LastMatch(assets, pat) ==
    LET hits == {i \in 1..Len(assets) : Search(pat, assets[i].name)}
    IN  IF hits = {} THEN 0 ELSE CHOOSE i \in hits : \A j \in hits : j <= i

FirstMatch(assets, pat) == ScanFrom(assets, pat, 1)

(***************************************************************************)
(* Paths and the filesystem.  A node is one file or directory; "from" is   *)
(* the release index of the asset whose bytes it holds (0: made by the     *)
(* program itself), "mode" is <<>> until os.chmod sets it.                 *)
(***************************************************************************)
Root == <<>>
OutDir == <<OutName>>

Node(p, kind, from) == [path |-> p, kind |-> kind, from |-> from, mode |-> <<>>]

IsPrefix(p, q) == Len(p) <= Len(q) /\ SubSeq(q, 1, Len(p)) = p

Parent(p) == SubSeq(p, 1, Len(p) - 1)
BaseName(p) == p[Len(p)]

Exists(fs, p) == p = Root \/ \E n \in fs : n.path = p
IsFile(fs, p) == \E n \in fs : n.path = p /\ n.kind = "file"
IsDir(fs, p) == p = Root \/ \E n \in fs : n.path = p /\ n.kind = "dir"

Under(fs, p) == {n \in fs : IsPrefix(p, n.path)}
Children(fs, p) == {n \in fs : Len(n.path) = Len(p) + 1 /\ IsPrefix(p, n.path)}

\* shutil.rmtree(p): p must be a directory
RmTree(fs, p) ==
    IF IsDir(fs, p) THEN [fs |-> fs \ Under(fs, p), err |-> ""]
    ELSE [fs |-> fs, err |-> "NotADirectoryError"]

\* Path.replace(dst) = rename(2)
Replace(fs, src, dst) ==
    IF ~Exists(fs, src) \/ ~IsDir(fs, Parent(dst))
        THEN [fs |-> fs, err |-> "FileNotFoundError"]
    ELSE IF src = dst THEN [fs |-> fs, err |-> ""]
    ELSE IF IsFile(fs, src) /\ IsDir(fs, dst)
        THEN [fs |-> fs, err |-> "IsADirectoryError"]
    ELSE IF IsDir(fs, src) /\ IsFile(fs, dst)
        THEN [fs |-> fs, err |-> "NotADirectoryError"]
    ELSE IF IsDir(fs, src) /\ (Children(fs, dst) # {} \/ IsPrefix(src, dst))
        THEN [fs |-> fs, err |-> "OSError"]
    ELSE [fs |-> ((fs \ Under(fs, src)) \ Under(fs, dst)) \cup
                 { [n EXCEPT !.path = dst \o SubSeq(n.path, Len(src) + 1, Len(n.path))] :
                     n \in Under(fs, src) },
          err |-> ""]

\* Path.mkdir(parents=True, exist_ok=True)
MkdirP(fs, p) ==
    IF IsFile(fs, p) \/ \E k \in 1..Len(p) : IsFile(fs, SubSeq(p, 1, k))
        THEN [fs |-> fs, err |-> "FileExistsError"]
    ELSE [fs |-> fs \cup { Node(SubSeq(p, 1, k), "dir", 0) :
                             k \in {j \in 1..Len(p) : ~Exists(fs, SubSeq(p, 1, j))} },
          err |-> ""]

\* open(p, "wb") and write: an existing file keeps its mode
WriteFile(fs, p, from) ==
    IF IsDir(fs, p) THEN [fs |-> fs, err |-> "IsADirectoryError"]
    ELSE IF ~IsDir(fs, Parent(p)) THEN [fs |-> fs, err |-> "FileNotFoundError"]
    ELSE [fs |-> {n \in fs : n.path # p} \cup
                 { IF IsFile(fs, p)
                     THEN [(CHOOSE n \in fs : n.path = p) EXCEPT !.from = from]
                     ELSE Node(p, "file", from) },
          err |-> ""]

\* what an archive library does to place one member: missing parents are made
AddEntry(fs, p, kind, from) ==
    LET parents == { Node(SubSeq(p, 1, k), "dir", from) :
                       k \in {j \in 1..(Len(p) - 1) : ~Exists(fs, SubSeq(p, 1, j))} }
    IN  IF kind = "dir" /\ IsDir(fs, p) THEN fs
        ELSE {n \in fs : n.path # p} \cup parents \cup {Node(p, kind, from)}

\* Path.resolve(strict=False) where no symlink is involved: ".." pops
RECURSIVE Norm(_, _)
Norm(acc, rest) ==
    IF rest = <<>> THEN acc
    ELSE IF Head(rest) = DotDot
        THEN Norm(IF acc = <<>> THEN <<>> ELSE Parent(acc), Tail(rest))
    ELSE Norm(Append(acc, Head(rest)), Tail(rest))

Resolve(p) == Norm(<<>>, p)

\* os.path.commonpath of two absolute paths: the longest common prefix
CommonPath(p, q) ==
    LET ks == {k \in 0..Len(p) : k <= Len(q) /\ SubSeq(p, 1, k) = SubSeq(q, 1, k)}
    IN  SubSeq(p, 1, CHOOSE k \in ks : \A j \in ks : j <= k)

(***************************************************************************)
(* Safe extraction helpers.  An archive member is                          *)
(* [path, abs, kind]: path is the member name split at "/", abs says the   *)
(* name starts with "/", kind is "file", "dir" or "bad" (a member the      *)
(* library cannot read: bad CRC in a zip, invalid follow-up header in a    *)
(* tar).                                                                   *)
(***************************************************************************)
\* dest / info.filename: joining an absolute name drops dest
JoinPath(dest, m) == IF m.abs THEN m.path ELSE dest \o m.path

\* a containment check that accepts every member
IsWithinAlways(base, target) == TRUE

_is_within(base, target) ==
    CommonPath(Resolve(base), Resolve(base)) = CommonPath(Resolve(base), Resolve(target))

\* zipfile: ZipFile._extract_member drops "..", empty and leading "/" parts
ZipTarget(dest, m) == dest \o SelectSeq(m.path, LAMBDA c : c # DotDot)

RECURSIVE ZipExtractAll(_, _, _, _)
ZipExtractAll(fs, dest, members, from) ==
    IF members = <<>> THEN [fs |-> fs, err |-> ""]
    ELSE LET m == Head(members)
         IN  IF m.kind = "bad" THEN [fs |-> fs, err |-> "BadZipFile"]
             ELSE ZipExtractAll(AddEntry(fs, ZipTarget(dest, m), m.kind, from),
                                dest, Tail(members), from)

extract_zip_safe(fs, dest, content, from) ==
    IF content.fmt # "zip" THEN [fs |-> fs, err |-> "BadZipFile"]
    ELSE IF \E i \in 1..Len(content.members) :
                ~_is_within(dest, JoinPath(dest, content.members[i]))
        THEN [fs |-> fs, err |-> "ValueError: Unsafe zip path"]
    ELSE ZipExtractAll(fs, dest, content.members, from)

\* tarfile.data_filter: leading slashes are stripped, then the member must
\* resolve inside dest or OutsideDestinationError (a FilterError) is raised
DataFilterOk(dest, m) == IsPrefix(Resolve(dest), Resolve(dest \o m.path))

\* TarFile.extractall(path, filter="data"): members are filtered and written
\* one after the other, so the members before a rejected one are on disk
RECURSIVE TarExtractAll(_, _, _, _)
TarExtractAll(fs, dest, members, from) ==
    IF members = <<>> THEN [fs |-> fs, err |-> ""]
    ELSE LET m == Head(members)
         IN  IF m.kind = "bad" THEN [fs |-> fs, err |-> "ReadError"]
             ELSE IF ~DataFilterOk(dest, m) THEN [fs |-> fs, err |-> "FilterError"]
             ELSE TarExtractAll(AddEntry(fs, Resolve(dest \o m.path), m.kind, from),
                                dest, Tail(members), from)

\* tarfile.open(fileobj=buffer, mode="r:*") on the downloaded bytes
TarOpens(content) == content.fmt = "targz"

extract_tar_safe(fs, dest, content, from) ==
    IF ~TarOpens(content) THEN [fs |-> fs, err |-> "ReadError"]
    ELSE TarExtractAll(fs, dest, content.members, from)

\* tarfile.TarError and its subclasses
TarErrors == {"ReadError", "FilterError"}

(***************************************************************************)
(* materialize(tmpdir, outdir, override_name).  override <<>> is None (or  *)
(* the empty string, which "or" treats alike).  order is the order in      *)
(* which tmpdir.iterdir() lists the entries.                               *)
(***************************************************************************)
OrElse(a, b) == IF a # <<>> THEN a ELSE b

Entries(fs, tmpdir) == {n \in Children(fs, tmpdir) : BaseName(n.path) # MACOSX}

RECURSIVE MoveEntries(_, _, _, _)
MoveEntries(fs, tmpdir, dest, order) ==
    IF order = <<>> THEN [fs |-> fs, err |-> ""]
    ELSE LET e == tmpdir \o <<Head(order)>>
             target == dest \o <<Head(order)>>
             cleared == IF IsDir(fs, e) /\ Exists(fs, target)
                          THEN RmTree(fs, target)
                          ELSE [fs |-> fs, err |-> ""]
             moved == Replace(cleared.fs, e, target)
         IN  IF cleared.err # "" THEN cleared
             ELSE IF moved.err # "" THEN moved
             ELSE MoveEntries(moved.fs, tmpdir, dest, Tail(order))

MultiDest(tmpdir, outdir, override) == outdir \o <<OrElse(override, BaseName(tmpdir))>>

materialize(fs, tmpdir, outdir, override, order) ==
    LET entries == Entries(fs, tmpdir)
        only == CHOOSE n \in entries : TRUE
    IN  IF Cardinality(entries) = 1 /\ only.kind = "file" THEN
            LET final == outdir \o <<OrElse(override, BaseName(only.path))>>
                made == MkdirP(fs, Parent(final))
                moved == IF Resolve(only.path) # Resolve(final)
                           THEN Replace(made.fs, only.path, final)
                           ELSE made
            IN  IF made.err # "" THEN [fs |-> made.fs, err |-> made.err, final |-> final]
                ELSE [fs |-> moved.fs, err |-> moved.err, final |-> final]
        ELSE IF Cardinality(entries) = 1 /\ only.kind = "dir" THEN
            LET dest == outdir \o <<OrElse(override, BaseName(only.path))>>
                cleared == IF Exists(fs, dest) THEN RmTree(fs, dest)
                           ELSE [fs |-> fs, err |-> ""]
                moved == Replace(cleared.fs, only.path, dest)
            IN  IF cleared.err # "" THEN [fs |-> cleared.fs, err |-> cleared.err, final |-> dest]
                ELSE [fs |-> moved.fs, err |-> moved.err, final |-> dest]
        ELSE
            LET dest == MultiDest(tmpdir, outdir, override)
                made == MkdirP(fs, dest)
                moved == MoveEntries(made.fs, tmpdir, dest, order)
            IN  IF made.err # "" THEN [fs |-> made.fs, err |-> made.err, final |-> dest]
                ELSE [fs |-> moved.fs, err |-> moved.err, final |-> dest]

\* the orders in which iterdir() may list a set of entries
Orders(entries) ==
    LET nms == {BaseName(n.path) : n \in entries}
        k == Cardinality(nms)
    IN  {o \in [1..k -> nms] : \A i, j \in 1..k : o[i] = o[j] => i = j}

(***************************************************************************)
(* Inputs: what the provider lists and serves, and the command line        *)
(***************************************************************************)
Mem(path, kind) == [path |-> path, abs |-> FALSE, kind |-> kind]
AbsMem(path, kind) == [path |-> path, abs |-> TRUE, kind |-> kind]

\* an asset: its name and the bytes behind its download URL.  fmt "targz" is
\* a gzip-compressed tar, "gzfile" a gzip of one file, "zip", "raw".
Asset(name, fmt, members) == [name |-> name, fmt |-> fmt, members |-> members]

aRaw == Asset(<<"r">>, "raw", <<>>)
aZipFile == Asset(<<"t", ".", "z", "i", "p">>, "zip", <<Mem(<<nF>>, "file")>>)
aZipUp == Asset(<<"M", ".", "Z", "I", "P">>, "zip",
                  <<Mem(<<nF>>, "file"), Mem(<<nD>>, "dir"), Mem(<<nD, nG>>, "file")>>)
aZipMac == Asset(<<"k", ".", "z", "i", "p">>, "zip",
                  <<Mem(<<nF>>, "file"), Mem(<<MACOSX>>, "dir"), Mem(<<MACOSX, nZ>>, "file")>>)
aZipBad == Asset(<<"u", ".", "z", "i", "p">>, "zip",
                  <<Mem(<<nF>>, "file"), Mem(<<DotDot, nE>>, "file")>>)
aZipAbs == Asset(<<"a", ".", "z", "i", "p">>, "zip", <<AbsMem(<<nE>>, "file")>>)
aZipCrc == Asset(<<"c", ".", "z", "i", "p">>, "zip",
                  <<Mem(<<nF>>, "file"), Mem(<<nG>>, "bad")>>)
aNotZip == Asset(<<"x", ".", "z", "i", "p">>, "raw", <<>>)
aTarDir == Asset(<<"d", ".", "t", "g", "z">>, "targz",
                  <<Mem(<<nD>>, "dir"), Mem(<<nD, nF>>, "file")>>)
aTarMany == Asset(<<"n", ".", "t", "a", "r", ".", "g", "z">>, "targz",
                  <<Mem(<<nF>>, "file"), Mem(<<nG>>, "file")>>)
aTarBad == Asset(<<"u", ".", "t", "g", "z">>, "targz",
                  <<Mem(<<nF>>, "file"), Mem(<<DotDot, nE>>, "file")>>)
aTarAbs == Asset(<<"a", ".", "t", "g", "z">>, "targz", <<AbsMem(<<nE>>, "file")>>)
aGzFile == Asset(<<"s", ".", "g", "z">>, "gzfile", <<>>)
aGzBad == Asset(<<"u", ".", "g", "z">>, "targz",
                  <<Mem(<<nF>>, "file"), Mem(<<DotDot, DotDot, nE>>, "file")>>)
aGzCut == Asset(<<"c", ".", "g", "z">>, "targz",
                  <<Mem(<<nF>>, "file"), Mem(<<nG>>, "bad")>>)
aGzDir == Asset(<<"d", ".", "g", "z">>, "targz",
                  <<Mem(<<nD>>, "dir"), Mem(<<nD, nF>>, "file")>>)

\* the releases the provider may hold
Releases ==
    { <<aRaw, aTarDir, aGzBad, aZipFile>>,
      <<aZipUp, aTarBad, aGzFile, aZipBad>>,
      <<aZipCrc, aGzCut>>,
      <<aNotZip, aTarAbs, aGzDir>>,
      <<aTarMany, aZipAbs>>,
      <<aZipMac, aZipFile>> }

\* "." (the first asset), "gz$", "\.z", "\.g"
PatternSet ==
    { <<".">>, <<"g", "z", "$">>, <<"\\.", "z">>, <<"\\.", "g">> }

\* the -n lists: one distinct name per asset, for the first assets
NameList == <<nX, nY, nZ, nE>>
NameLists == { SubSeq(NameList, 1, k) : k \in 0..MaxNames }
ChmodSet == { <<"7", "5", "5">>, <<"8">> }

SeqsUpTo(S, lo, hi) == UNION { [1..k -> S] : k \in lo..hi }

\* int(s, 8) for a digit string: <<>> is ValueError, else <<value>>
OctVal(c) ==
    CASE c = "0" -> 0 [] c = "1" -> 1 [] c = "2" -> 2 [] c = "3" -> 3
      [] c = "4" -> 4 [] c = "5" -> 5 [] c = "6" -> 6 [] c = "7" -> 7
      [] OTHER -> -1

RECURSIVE OctFold(_, _)
OctFold(acc, s) == IF s = <<>> THEN acc ELSE OctFold(acc * 8 + OctVal(Head(s)), Tail(s))

ParseOctal(s) ==
    IF s = <<>> \/ \E i \in 1..Len(s) : OctVal(s[i]) < 0 THEN <<>>
    ELSE <<OctFold(0, s)>>

\* the name tempfile.TemporaryDirectory picks: fresh for every asset
DigitChar(i) ==
    CASE i = 0 -> "0" [] i = 1 -> "1" [] i = 2 -> "2" [] i = 3 -> "3" [] OTHER -> "9"

TmpName(i) == <<"t", "m", "p", DigitChar(i)>>
IsTmpName(nm) == Len(nm) = 4 /\ SubSeq(nm, 1, 3) = <<"t", "m", "p">>

\* suffix classification in main
Kind(orig) ==
    LET lower == Lower(orig)
    IN  IF EndsWithAny(lower, ARCHIVE_SUFFIXES) THEN "archive"
        ELSE IF EndsWith(lower, GzSuffix) THEN "gz"
        ELSE "raw"

(***************************************************************************)
(* State                                                                   *)
(***************************************************************************)
VARIABLES
    release,       \* the asset list of the provider's latest release
    args,          \* the parsed command line
    pc,            \* where main is
    releaseCalls,  \* calls of the releases endpoint
    pi,            \* find_assets: position in patterns (1-based)
    assets,        \* find_assets: out, as indices into release
    idx,           \* the for loop's idx
    downloads,     \* asset downloads started
    override,      \* <<>> is None
    chmod_mode,    \* <<>> is None, else <<mode>>
    is_tar,
    tmpdir,        \* <<>> outside the with block, else <<path>>
    exc,           \* the exception travelling out of the with block, "" if none
    final,         \* <<>> while unbound, else <<path>>
    finalIdx,      \* the idx at which final was last assigned
    fs,            \* the filesystem
    exitStatus,    \* -1 while running
    error,         \* the uncaught exception that ended the run
    okPrinted,     \* "[OK] Download(s) complete." was printed
    stderr,        \* the [SKIP] and [WARN] lines, in order
    chmodLog,      \* every os.chmod that was applied
    multi,         \* names of the entries the last materialize found, when several
    prev           \* <<>> in a first run, else <<the outcome of the run before>>

vars == <<release, args, pc, releaseCalls, pi, assets, idx, downloads, override,
          chmod_mode, is_tar, tmpdir, exc, final, finalIdx, fs, exitStatus, error,
          okPrinted, stderr, chmodLog, multi, prev>>

inputs == <<release, args, prev>>
matcher == <<pi, assets>>
locals == <<override, chmod_mode, is_tar, tmpdir, exc, final, finalIdx, multi>>
outcome == <<exitStatus, error, okPrinted>>

NoError == [type |-> "", n |-> 0]

Init ==
    /\ release \in Releases
    /\ args \in [ patterns : SeqsUpTo(PatternSet, 1, MaxPatterns),
                  names : NameLists,
                  chmod : SeqsUpTo(ChmodSet, 0, MaxChmod),
                  allow_missing : BOOLEAN ]
    /\ pc = "start"
    /\ releaseCalls = 0
    /\ pi = 1
    /\ assets = <<>>
    /\ idx = 0
    /\ downloads = 0
    /\ override = <<>>
    /\ chmod_mode = <<>>
    /\ is_tar = FALSE
    /\ tmpdir = <<>>
    /\ exc = ""
    /\ final = <<>>
    /\ finalIdx = -1
    /\ fs = {}
    /\ exitStatus = -1
    /\ error = NoError
    /\ okPrinted = FALSE
    /\ stderr = <<>>
    /\ chmodLog = {}
    /\ multi = {}
    /\ prev = <<>>

\* an uncaught exception: traceback, exit status 1
Raise(type, n) ==
    /\ pc' = "done"
    /\ exitStatus' = 1
    /\ error' = [type |-> type, n |-> n]
    /\ UNCHANGED okPrinted

Goto(p) ==
    /\ pc' = p
    /\ UNCHANGED outcome

Cur == release[assets[idx + 1]]

(***************************************************************************)
(* main, lines 174-178                                                     *)
(***************************************************************************)
\* get_latest_release: one GET; raise_for_status on a non-success status
get_latest_release ==
    /\ pc = "start"
    /\ releaseCalls' = releaseCalls + 1
    /\ \E ok \in BOOLEAN :
          IF ok THEN Goto("match") ELSE Raise("HTTPError", 0)
    /\ UNCHANGED <<inputs, matcher, idx, downloads, locals, fs, stderr, chmodLog>>

\* lines 63-67: what find_assets does with a pattern that matched nothing
\* a matcher that skips an unmatched pattern whatever the flag says
OnMissingAlwaysSkip(allow_missing) == "skip"

OnMissing(allow_missing) == IF allow_missing THEN "skip" ELSE "raise"

\* find_assets: one turn of the loop over patterns
MatchStep ==
    /\ pc = "match"
    /\ pi <= Len(args.patterns)
    /\ LET matched == FirstMatch(release, args.patterns[pi])
       IN  IF matched = 0 THEN
               IF OnMissing(args.allow_missing) = "skip" THEN
                   /\ stderr' = Append(stderr, [tag |-> "SKIP", n |-> pi])
                   /\ pi' = pi + 1
                   /\ Goto("match")
                   /\ UNCHANGED assets
               ELSE
                   /\ Raise("ValueError: No asset matching", pi)
                   /\ UNCHANGED <<stderr, pi, assets>>
           ELSE
               /\ assets' = Append(assets, matched)
               /\ pi' = pi + 1
               /\ Goto("match")
               /\ UNCHANGED stderr
    /\ UNCHANGED <<inputs, releaseCalls, idx, downloads, locals, fs, chmodLog>>

\* find_assets returns; outdir = Path(args.output); ensure_dir(outdir)
EnsureDir ==
    /\ pc = "match"
    /\ pi > Len(args.patterns)
    /\ fs' = MkdirP(fs, OutDir).fs
    /\ IF MkdirP(fs, OutDir).err = "" THEN Goto("loop") ELSE Raise("FileExistsError", 0)
    /\ UNCHANGED <<inputs, releaseCalls, matcher, idx, downloads, locals, stderr, chmodLog>>

(***************************************************************************)
(* main, the loop over the matched assets (lines 180-233)                  *)
(***************************************************************************)
\* "args.names and idx < len(args.names)", likewise for args.chmod
HasOption(list, i) == Len(list) > 0 /\ i < Len(list)

\* an override lookup that counts positions from 1
OverrideOneBased(names, i) == IF i >= 1 /\ i <= Len(names) THEN names[i] ELSE <<>>

\* line 183: args.names[idx] if ... else None
OverrideFor(names, i) == IF HasOption(names, i) THEN names[i + 1] ELSE <<>>

\* lines 181-191: download_to_buffer, override, chmod_mode, lower
Download ==
    /\ pc = "loop"
    /\ idx < Len(assets)
    /\ downloads' = downloads + 1
    /\ \E ok \in BOOLEAN :
          IF ~ok THEN
              /\ Raise("HTTPError", idx)
              /\ UNCHANGED <<override, chmod_mode, stderr>>
          ELSE
              /\ override' = OverrideFor(args.names, idx)
              /\ IF HasOption(args.chmod, idx)
                   THEN /\ chmod_mode' = ParseOctal(args.chmod[idx + 1])
                        /\ stderr' = IF ParseOctal(args.chmod[idx + 1]) = <<>>
                                       THEN Append(stderr, [tag |-> "WARN", n |-> idx])
                                       ELSE stderr
                   ELSE /\ chmod_mode' = <<>>
                        /\ UNCHANGED stderr
              /\ Goto(Kind(Cur.name))
    /\ UNCHANGED <<inputs, releaseCalls, matcher, idx, is_tar, tmpdir, exc, final,
                   finalIdx, fs, chmodLog>>
    /\ multi' = {}

\* tempfile.TemporaryDirectory(dir=outdir).__enter__
MkDTemp(f, i) == AddEntry(f, OutDir \o <<TmpName(i)>>, "dir", 0)

\* lines 194-195
EnterScratch ==
    /\ pc = "archive"
    /\ tmpdir' = <<OutDir \o <<TmpName(idx)>>>>
    /\ fs' = MkDTemp(fs, idx)
    /\ exc' = ""
    /\ Goto("extract")
    /\ UNCHANGED <<inputs, releaseCalls, matcher, idx, downloads, override, chmod_mode,
                   is_tar, final, finalIdx, stderr, chmodLog, multi>>

\* lines 207-215: the probe; tarfile.open raises ReadError (a TarError) when
\* the decompressed stream is no tar or the buffer is no gzip
GzProbe ==
    /\ pc = "gz"
    /\ IF TarOpens(Cur)
         THEN /\ is_tar' = TRUE
              /\ tmpdir' = <<OutDir \o <<TmpName(idx)>>>>
              /\ fs' = MkDTemp(fs, idx)
              /\ Goto("extract")
         ELSE /\ is_tar' = FALSE
              /\ Goto("gzsingle")
              /\ UNCHANGED <<tmpdir, fs>>
    /\ exc' = ""
    /\ UNCHANGED <<inputs, releaseCalls, matcher, idx, downloads, override, chmod_mode,
                   final, finalIdx, stderr, chmodLog, multi>>

\* lines 197-202 and 216
ExtractResult ==
    LET from == assets[idx + 1]
    IN  IF Kind(Cur.name) = "gz" THEN TarExtractAll(fs, tmpdir[1], Cur.members, from)
        ELSE IF EndsWith(Lower(Cur.name), ZipSuffix)
            THEN extract_zip_safe(fs, tmpdir[1], Cur, from)
        ELSE extract_tar_safe(fs, tmpdir[1], Cur, from)

Extract ==
    /\ pc = "extract"
    /\ fs' = ExtractResult.fs
    /\ exc' = ExtractResult.err
    /\ Goto(IF ExtractResult.err = "" THEN "materialize" ELSE "cleanup")
    /\ UNCHANGED <<inputs, releaseCalls, matcher, idx, downloads, override, chmod_mode,
                   is_tar, tmpdir, final, finalIdx, stderr, chmodLog, multi>>

\* lines 203 and 217: final = materialize(tmpdir, outdir, override)
Materialize ==
    /\ pc = "materialize"
    /\ \E order \in Orders(Entries(fs, tmpdir[1])) :
          LET r == materialize(fs, tmpdir[1], OutDir, override, order)
          IN  /\ fs' = r.fs
              /\ exc' = r.err
              /\ final' = IF r.err = "" THEN <<r.final>> ELSE final
              /\ finalIdx' = IF r.err = "" THEN idx ELSE finalIdx
    /\ multi' = IF Cardinality(Entries(fs, tmpdir[1])) > 1
                  THEN {BaseName(n.path) : n \in Entries(fs, tmpdir[1])} ELSE {}
    /\ Goto("cleanup")
    /\ UNCHANGED <<inputs, releaseCalls, matcher, idx, downloads, override, chmod_mode,
                   is_tar, tmpdir, stderr, chmodLog>>

\* TemporaryDirectory.__exit__ removes the directory, with or without an
\* exception; then the exception, if any, goes on: in the ".gz" branch
\* "except tarfile.TarError: pass" (lines 218-219) swallows a TarError
Swallowed(kind, e) == kind = "gz" /\ e \in TarErrors

\* a cleanup that only removes the scratch directory when it is empty
ScratchRmdirOnly(f, td) == IF Children(f, td) = {} THEN f \ Under(f, td) ELSE f

ScratchCleanup(f, td) == f \ Under(f, td)

LeaveScratch ==
    /\ pc = "cleanup"
    /\ fs' = ScratchCleanup(fs, tmpdir[1])
    /\ tmpdir' = <<>>
    /\ exc' = ""
    /\ IF exc = "" \/ Swallowed(Kind(Cur.name), exc)
         THEN Goto("chmod")
         ELSE Raise(exc, idx)
    /\ UNCHANGED <<inputs, releaseCalls, matcher, idx, downloads, override, chmod_mode,
                   is_tar, final, finalIdx, stderr, chmodLog, multi>>

\* lines 221-224: extract_gz_single_file(buf, outdir, override or orig[:-3])
StripGz(orig) == SubSeq(orig, 1, Len(orig) - 3)

GzSingle ==
    /\ pc = "gzsingle"
    /\ LET target == OutDir \o <<OrElse(override, StripGz(Cur.name))>>
           w == WriteFile(fs, target, assets[idx + 1])
       IN  IF Cur.fmt # "gzfile" THEN
               /\ Raise("BadGzipFile", idx)
               /\ UNCHANGED <<fs, final, finalIdx>>
           ELSE IF w.err # "" THEN
               /\ Raise(w.err, idx)
               /\ UNCHANGED <<fs, final, finalIdx>>
           ELSE
               /\ fs' = w.fs
               /\ final' = <<target>>
               /\ finalIdx' = idx
               /\ Goto("chmod")
    /\ UNCHANGED <<inputs, releaseCalls, matcher, idx, downloads, override, chmod_mode,
                   is_tar, tmpdir, exc, stderr, chmodLog, multi>>

\* lines 226-229: save_binary(buf, outdir / (override or orig))
SaveRaw ==
    /\ pc = "raw"
    /\ LET target == OutDir \o <<OrElse(override, Cur.name)>>
           w == WriteFile(fs, target, assets[idx + 1])
       IN  IF w.err # "" THEN
               /\ Raise(w.err, idx)
               /\ UNCHANGED <<fs, final, finalIdx>>
           ELSE
               /\ fs' = w.fs
               /\ final' = <<target>>
               /\ finalIdx' = idx
               /\ Goto("chmod")
    /\ UNCHANGED <<inputs, releaseCalls, matcher, idx, downloads, override, chmod_mode,
                   is_tar, tmpdir, exc, stderr, chmodLog, multi>>

\* lines 231-233, then the next turn of the loop.  os.chmod may fail with an
\* OSError (a filesystem that refuses the change, a file of another owner).
Chmod ==
    /\ pc = "chmod"
    /\ IF chmod_mode = <<>> THEN
           /\ Goto("loop") /\ idx' = idx + 1 /\ UNCHANGED <<fs, chmodLog>>
       ELSE IF final = <<>> THEN
           /\ Raise("UnboundLocalError", idx) /\ UNCHANGED <<idx, fs, chmodLog>>
       ELSE IF ~IsFile(fs, final[1]) THEN
           /\ Goto("loop") /\ idx' = idx + 1 /\ UNCHANGED <<fs, chmodLog>>
       ELSE \E ok \in BOOLEAN :
           IF ok THEN
               /\ fs' = { IF n.path = final[1] THEN [n EXCEPT !.mode = chmod_mode] ELSE n :
                            n \in fs }
               /\ chmodLog' = chmodLog \cup
                     { [idx |-> idx, of |-> finalIdx, path |-> final[1]] }
               /\ Goto("loop")
               /\ idx' = idx + 1
           ELSE
               /\ Raise("PermissionError", idx)
               /\ UNCHANGED <<idx, fs, chmodLog>>
    /\ UNCHANGED <<inputs, releaseCalls, matcher, downloads, locals, stderr>>

\* line 236
Finish ==
    /\ pc = "loop"
    /\ idx >= Len(assets)
    /\ pc' = "done"
    /\ okPrinted' = TRUE
    /\ exitStatus' = 0
    /\ UNCHANGED <<error, inputs, releaseCalls, matcher, idx, downloads, locals, fs,
                   stderr, chmodLog>>

Next ==
    \/ get_latest_release
    \/ MatchStep
    \/ EnsureDir
    \/ Download
    \/ EnterScratch
    \/ GzProbe
    \/ Extract
    \/ Materialize
    \/ LeaveScratch
    \/ GzSingle
    \/ SaveRaw
    \/ Chmod
    \/ Finish

Spec == Init /\ [][Next]_vars

(***************************************************************************)
(* A second run of the tool on the output directory the first run left     *)
(***************************************************************************)
EnvFailure(e) == e.type \in {"HTTPError", "PermissionError"}

Rerun ==
    /\ pc = "done"
    /\ prev = <<>>
    /\ prev' = <<[fs |-> fs, exitStatus |-> exitStatus, error |-> error]>>
    /\ pc' = "start"
    /\ releaseCalls' = 0
    /\ pi' = 1
    /\ assets' = <<>>
    /\ idx' = 0
    /\ downloads' = 0
    /\ override' = <<>>
    /\ chmod_mode' = <<>>
    /\ is_tar' = FALSE
    /\ tmpdir' = <<>>
    /\ exc' = ""
    /\ final' = <<>>
    /\ finalIdx' = -1
    /\ exitStatus' = -1
    /\ error' = NoError
    /\ okPrinted' = FALSE
    /\ stderr' = <<>>
    /\ chmodLog' = {}
    /\ multi' = {}
    /\ UNCHANGED <<release, args, fs>>

NextRerun == Next \/ Rerun

SpecRerun == Init /\ [][NextRerun]_vars

(***************************************************************************)
(* Properties                                                              *)
(***************************************************************************)
\* pattern i of the command line matches some asset name of the release
Satisfied(i) == \E j \in 1..Len(release) : Search(args.patterns[i], release[j].name)
SatisfiedSet == {i \in 1..Len(args.patterns) : Satisfied(i)}
Unsatisfied == (1..Len(args.patterns)) \ SatisfiedSet

\* the position in the pattern list of the k-th satisfied pattern
KthSatisfied(k) ==
    CHOOSE i \in SatisfiedSet : Cardinality({j \in SatisfiedSet : j < i}) = k - 1

\* find_assets has returned its list
Returned == pi > Len(args.patterns)

\* C1: find_assets returns, for each pattern that matches some asset name,
\* the first asset in listing order whose name matches; the list is in
\* pattern order and has exactly one asset per satisfied pattern.
C1_FirstMatchPerPattern ==
    (Returned /\ pc = "match") =>
        /\ Len(assets) = Cardinality(SatisfiedSet)
        /\ \A k \in 1..Len(assets) :
              LET pat == args.patterns[KthSatisfied(k)]
              IN  /\ Search(pat, release[assets[k]].name)
                  /\ \A j \in 1..(assets[k] - 1) : ~Search(pat, release[j].name)

\* a skipped pattern followed by a pattern that several assets match, the
\* first of which was returned
C1_Witness ==
    /\ Returned
    /\ pc = "match"
    /\ Len(args.patterns) = 2
    /\ ~Satisfied(1)
    /\ Cardinality({j \in 1..Len(release) : Search(args.patterns[2], release[j].name)}) > 1
    /\ assets = <<1>>

FirstUnsatisfied == CHOOSE i \in Unsatisfied : \A j \in Unsatisfied : i <= j

\* C2: an unmatched pattern is never silently ignored.  Without
\* allow-missing the run aborts at the first unmatched pattern, before any
\* download; matching is complete before the first download and the release
\* endpoint is called once; with allow-missing a [SKIP] line is written for
\* each unmatched pattern and matching never raises.
C2_UnmatchedNeverIgnored ==
    /\ releaseCalls <= 1
    /\ pc # "start" => releaseCalls = 1
    /\ downloads > 0 => Returned
    /\ (~args.allow_missing /\ Unsatisfied # {}) =>
          /\ downloads = 0
          /\ ~okPrinted
          /\ pi <= FirstUnsatisfied
          /\ pc = "done" =>
                /\ exitStatus = 1
                /\ \/ error.type = "HTTPError"
                   \/ error = [type |-> "ValueError: No asset matching",
                               n |-> FirstUnsatisfied]
    /\ args.allow_missing =>
          /\ error.type # "ValueError: No asset matching"
          /\ \A i \in Unsatisfied :
                i < pi => \E k \in 1..Len(stderr) : stderr[k] = [tag |-> "SKIP", n |-> i]

\* the second pattern is the unmatched one: an asset was matched, none fetched
C2_Witness ==
    /\ ~args.allow_missing
    /\ pc = "done"
    /\ error = [type |-> "ValueError: No asset matching", n |-> 2]
    /\ Len(assets) = 1
    /\ downloads = 0

\* a member name that climbs above the directory it is joined to
Escapes(path) ==
    \E k \in 1..Len(path) :
        Cardinality({i \in 1..k : path[i] = DotDot}) >
        Cardinality({i \in 1..k : path[i] # DotDot})

\* how main unpacks the asset: "zip", "tar" or "none"
ArchiveMode(a) ==
    IF Kind(a.name) = "archive"
        THEN (IF EndsWith(Lower(a.name), ZipSuffix) THEN "zip" ELSE "tar")
    ELSE IF Kind(a.name) = "gz" /\ a.fmt = "targz" THEN "tar"
    ELSE "none"

\* an archive with a member whose destination is outside the scratch
\* directory: a name that climbs out of it or, joined as zip names are, an
\* absolute name (the tar filter strips the leading "/" instead)
UnsafeArchive(a) ==
    /\ ArchiveMode(a) # "none"
    /\ \E i \in 1..Len(a.members) :
          \/ Escapes(a.members[i].path)
          \/ ArchiveMode(a) = "zip" /\ a.members[i].abs

ArchiveFailures ==
    {"ValueError: Unsafe zip path", "FilterError", "ReadError", "BadZipFile"}

\* C4: an unsafe or corrupt archive always ends the run with a non-zero
\* status and without the success message, whichever branch unpacked it.
C4_ArchiveFailureIsFatal ==
    [][(pc = "cleanup" /\ exc \in ArchiveFailures) =>
          (pc' = "done" /\ exitStatus' = 1 /\ ~okPrinted')]_vars

\* the output directory holds nothing of another asset
OnlyOwnFiles == prev = <<>> /\ \A n \in fs : n.from \in {0, assets[idx + 1]}

\* C5: after an archive with several top-level entries, the step ends with
\* the directory outdir/<override or scratch name>, which holds every entry
\* and is the asset's final path.
C5_SeveralEntriesDirectory ==
    (/\ multi # {}
     /\ pc = "chmod" \/ (pc = "done" /\ exitStatus = 1)
     /\ OnlyOwnFiles) =>
        LET dest == OutDir \o <<OrElse(override, TmpName(idx))>>
        IN  /\ final = <<dest>>
            /\ finalIdx = idx
            /\ IsDir(fs, dest)
            /\ \A nm \in multi : Exists(fs, dest \o <<nm>>)

\* an asset the claim covers: the bytes are what the name says and no member
\* is unsafe or unreadable
WellFormed(a) ==
    /\ ArchiveMode(a) = "zip" => a.fmt = "zip"
    /\ (Kind(a.name) = "archive" /\ ArchiveMode(a) = "tar") => a.fmt = "targz"
    /\ Kind(a.name) = "gz" => a.fmt \in {"targz", "gzfile"}
    /\ \A i \in 1..Len(a.members) :
          /\ ~a.members[i].abs
          /\ a.members[i].kind # "bad"
          /\ \A k \in 1..Len(a.members[i].path) : a.members[i].path[k] # DotDot

CoveredInputs ==
    /\ \A i \in 1..Len(args.patterns) :
          /\ Satisfied(i)
          /\ WellFormed(release[FirstMatch(release, args.patterns[i])])

\* C6: a second run with the same inputs succeeds and leaves the output
\* directory as the first run left it.
C6_SecondRunSameLayout ==
    (/\ pc = "done"
     /\ prev # <<>>
     /\ CoveredInputs
     /\ ~EnvFailure(prev[1].error)
     /\ ~EnvFailure(error)) =>
        /\ exitStatus = 0
        /\ fs = prev[1].fs

\* C7: the chmod step never aborts the run: an unparsable value is warned
\* about and, for an asset that has its result, the step goes on to the next
\* asset whatever os.chmod does.
C7_ChmodNeverAborts ==
    /\ [](\A i \in 0..(idx - 1) :
            (HasOption(args.chmod, i) /\ ParseOctal(args.chmod[i + 1]) = <<>>) =>
                \E k \in 1..Len(stderr) : stderr[k] = [tag |-> "WARN", n |-> i])
    /\ [][(pc = "chmod" /\ finalIdx = idx) => pc' = "loop"]_vars

ScratchDirs ==
    {n \in fs : Len(n.path) = 2 /\ n.path[1] = OutName /\ IsTmpName(n.path[2])}

\* C8: no scratch directory exists outside an asset's extract-and-materialize
\* step, however the step ended, and never more than one exists.
C8_ScratchRemoved ==
    /\ Cardinality(ScratchDirs) <= 1
    /\ pc \notin {"extract", "materialize", "cleanup"} => ScratchDirs = {}

\* a step that ended by an error after its scratch directory had been filled
C8_Witness ==
    /\ pc = "done"
    /\ error.type \in {"FilterError", "BadZipFile", "FileNotFoundError"}
    /\ downloads = 2

\* C9: the asset being processed receives the override and chmod value at
\* its position in the matched list, which is its pattern's position minus
\* the number of patterns skipped before it.
C9_PositionalByMatchedList ==
    pc \in {"archive", "gz", "raw", "extract", "materialize", "cleanup",
            "gzsingle", "chmod"} =>
        LET k == KthSatisfied(idx + 1)
            j == k - Cardinality({i \in Unsatisfied : i < k})
        IN  /\ assets[idx + 1] = FirstMatch(release, args.patterns[k])
            /\ override = IF j <= Len(args.names) THEN args.names[j] ELSE <<>>
            /\ chmod_mode = IF j <= Len(args.chmod)
                              THEN ParseOctal(args.chmod[j]) ELSE <<>>

\* the first pattern was skipped and the second pattern's asset took the
\* first override and the first chmod value
C9_Witness ==
    /\ pc = "chmod"
    /\ idx = 0
    /\ ~Satisfied(1)
    /\ Len(args.names) = 2
    /\ args.names[1] # args.names[2]
    /\ override = args.names[1]
    /\ Len(args.chmod) = 2
    /\ args.chmod[1] # args.chmod[2]
    /\ chmod_mode = ParseOctal(args.chmod[1])

\* C10: every chmod applied while asset idx is processed targets the result
\* of that asset.
C10_ChmodOwnResult == \A c \in chmodLog : c.of = c.idx

====
